---- MODULE Spec2Model ----
(***************************************************************************)
(* Model of the audio forensic analysers                                   *)
(*   scripts/audio_analysis.py       analyze_audio                         *)
(*   scripts/live_audio_analysis.py  generate_live_analysis                *)
(*                                                                         *)
(* Numbers.  The code computes in floating point; the model computes in    *)
(* exact rational arithmetic on integers:                                  *)
(*   - a normalized energy value is the pair (numerator, common            *)
(*     denominator), the denominator being the maximum of the envelope     *)
(*     (or 1 when the maximum is 0 and the code leaves the envelope        *)
(*     undivided);                                                         *)
(*   - round(v, d) is round-half-to-even of the exact value, returned as   *)
(*     the integer v * 10^d (amplitude in 1/1000, time in 1/100 s,         *)
(*     frequency in 1/10 Hz);                                              *)
(*   - spectral centroid and rolloff are carried in 1/100 Hz, the          *)
(*     zero-crossing rate in 1/10000.                                      *)
(* Frame indices (peaks) are 0-based as in the code; sequences are 1-based *)
(* so frame p of an array x is x[p + 1].                                   *)
(*                                                                         *)
(* Waveforms are piecewise constant: one non-negative amplitude per block  *)
(* of hop_length samples, the last block holding lastLen samples.          *)
(***************************************************************************)
EXTENDS Integers, Sequences, FiniteSets, TLC

VARIABLES request, pc, result, locals, tempFiles, calls

vars == <<request, pc, result, locals, tempFiles, calls>>

----------------------------------------------------------------------------
(* Program constants *)

frame_length == 1024
hop_length == 512
MinDistance == 5
TopNBasic == 10
TopNLive == 15
KBasic == 100
KLive == 200

(* height=0.2 as the rational 1/HeightDen *)
HeightDen == 5

----------------------------------------------------------------------------
(* Bounds of the model *)

MaxBlocks == 8        \* longest waveform of the exhaustive family, in blocks
MaxBursts == 17       \* bursts in the ranking family (above TopNLive)
PatLen == 3           \* period of the burst shapes in the ranking family
MaxCallBlocks == 2    \* longest waveform of the call family, in blocks
MaxCalls == 2         \* analysis calls in a row in the call family
MaxFeatLen == 4       \* feature array lengths 0..MaxFeatLen in the alignment family

----------------------------------------------------------------------------
(* Arithmetic helpers *)

Min(a, b) == IF a < b THEN a ELSE b
Max(a, b) == IF a > b THEN a ELSE b

(* the largest element of a sequence of naturals (0 for the empty one;    *)
(* the handlers never take the maximum of an empty array, which raises)   *)
SeqMax(s) ==
    LET S == {s[i] : i \in 1..Len(s)}
    IN  IF S = {} THEN 0 ELSE CHOOSE m \in S : \A v \in S : v <= m

(* s[lo] + ... + s[hi], by halves *)
RECURSIVE SumRange(_, _, _)
SumRange(s, lo, hi) ==
    IF lo > hi THEN 0
    ELSE IF lo = hi THEN s[lo]
    ELSE LET mid == (lo + hi) \div 2
         IN  SumRange(s, lo, mid) + SumRange(s, mid + 1, hi)

SeqSum(s) == SumRange(s, 1, Len(s))

(* round-half-to-even of num/den (num >= 0, den > 0) to an integer *)
RoundHalfEven(num, den) ==
    LET q == num \div den
        r == num % den
    IN  IF 2 * r < den THEN q
        ELSE IF 2 * r > den THEN q + 1
        ELSE IF q % 2 = 0 THEN q ELSE q + 1

(* round(num/den, d) as the integer round(num/den * scale), scale = 10^d *)
Round(num, den, scale) ==
    scale * (num \div den) + RoundHalfEven(scale * (num % den), den)

----------------------------------------------------------------------------
(* The waveform y, sr of a request *)

NumSamples(req) ==
    IF Len(req.blocks) = 0 THEN 0
    ELSE hop_length * (Len(req.blocks) - 1) + req.lastLen

(* samples of block b (1-based) *)
BlockLen(req, b) ==
    IF b = Len(req.blocks) THEN req.lastLen ELSE hop_length

(* number of samples of block b inside the slice y[lo:hi] *)
Overlap(req, b, lo, hi) ==
    LET bLo == hop_length * (b - 1)
        bHi == bLo + BlockLen(req, b)
        o == Min(hi, bHi) - Max(lo, bLo)
    IN  IF o > 0 THEN o ELSE 0

(* sum(abs(y[lo:hi]**2)): the slice is clipped at the end of the signal *)
SumSquares(req, lo, hi) ==
    LET first == lo \div hop_length + 1
        last == Min(Len(req.blocks), (hi - 1) \div hop_length + 1)
        sq[b \in first..last] ==
            req.blocks[b] * req.blocks[b] * Overlap(req, b, lo, hi)
        RECURSIVE Acc(_)
        Acc(b) == IF b > last THEN 0 ELSE sq[b] + Acc(b + 1)
    IN  Acc(first)

(* np.max(np.abs(y)), for a non-empty waveform *)
MaxAbs(req) == SeqMax(req.blocks)

(* np.sum(y): the zero-frequency bin of the transform *)
SumSamples(req) ==
    SeqSum([b \in 1..Len(req.blocks) |-> req.blocks[b] * BlockLen(req, b)])

----------------------------------------------------------------------------
(* Frame Energy Extractor *)

(* one value per offset 0, hop_length, 2*hop_length, ... < len(y) *)
RawEnergy(req) ==
    LET n == NumSamples(req)
        frames == (n + hop_length - 1) \div hop_length
    IN  [f \in 1..frames |->
            SumSquares(req, hop_length * (f - 1), hop_length * (f - 1) + frame_length)]

(* energy / np.max(energy) if np.max(energy) > 0 else energy *)
Normalize(raw) ==
    LET m == SeqMax(raw)
    IN  IF m > 0 THEN [num |-> raw, den |-> m] ELSE [num |-> raw, den |-> 1]

----------------------------------------------------------------------------
(* Peak Picker: find_peaks(energy, height=0.2, distance=5)                 *)
(* x is the sequence of numerators of the envelope, den its denominator.   *)

(* first index >= a (0-based) that is the last sample or differs from x[i] *)
RECURSIVE PlateauEnd(_, _, _)
PlateauEnd(x, i, a) ==
    IF a < Len(x) - 1 /\ x[a + 1] = x[i + 1] THEN PlateauEnd(x, i, a + 1) ELSE a

(* the test of the scan at sample i (0-based, 1 <= i < len - 1): the      *)
(* previous sample is smaller and the next unequal sample is smaller too;  *)
(* the peak is the midpoint of the plateau.  The samples the scan skips    *)
(* after a peak fail the first test, so testing every sample is the scan.  *)
MaximaAt(x, i) ==
    IF x[i] < x[i + 1]
    THEN LET ahead == PlateauEnd(x, i, i + 1)
         IN  IF x[ahead + 1] < x[i + 1] THEN <<(i + ahead - 1) \div 2>> ELSE <<>>
    ELSE <<>>

(* the local maxima among samples lo..hi, in ascending order, by halves *)
RECURSIVE LocalMaximaIn(_, _, _)
LocalMaximaIn(x, lo, hi) ==
    IF lo > hi THEN <<>>
    ELSE IF lo = hi THEN MaximaAt(x, lo)
    ELSE LET mid == (lo + hi) \div 2
         IN  LocalMaximaIn(x, lo, mid) \o LocalMaximaIn(x, mid + 1, hi)

(* the first and the last sample never count *)
LocalMaxima(x) == LocalMaximaIn(x, 1, Len(x) - 2)

(* height condition: x[p] / den >= 1 / HeightDen *)
SelectByHeight(x, den, cand) ==
    SelectSeq(cand, LAMBDA p : HeightDen * x[p + 1] >= den)

(* a bug: priorities sorted descending, so the weakest peak is served first *)
ArgSortDescending(priority, tie) ==
    LET k == Len(priority)
        Before(a, b) == \/ priority[a] > priority[b]
                        \/ priority[a] = priority[b] /\ tie[a] < tie[b]
        rank[j \in 1..k] == 1 + Cardinality({m \in 1..k : Before(m, j)})
    IN  [i \in 1..k |-> CHOOSE j \in 1..k : rank[j] = i]

(* np.argsort(priority): ascending by priority; the sort is not stable, so *)
(* the order of equal priorities is given by the key tie (a sequence of    *)
(* distinct numbers, one per candidate)                                    *)
ArgSort(priority, tie) ==
    LET k == Len(priority)
        Before(a, b) == \/ priority[a] < priority[b]
                        \/ priority[a] = priority[b] /\ tie[a] < tie[b]
        rank[j \in 1..k] == 1 + Cardinality({m \in 1..k : Before(m, j)})
    IN  [i \in 1..k |-> CHOOSE j \in 1..k : rank[j] = i]

(* _select_by_peak_distance: from the highest priority down, a peak still  *)
(* kept removes every peak closer than distance; returns the removed set   *)
RECURSIVE SelectLoop(_, _, _, _, _)
SelectLoop(peaks, order, distance, i, removed) ==
    IF i = 0 THEN removed
    ELSE LET j == order[i]
         IN  IF j \in removed
             THEN SelectLoop(peaks, order, distance, i - 1, removed)
             ELSE LET lower == {k \in 1..(j - 1) : peaks[j] - peaks[k] < distance}
                      upper == {k \in (j + 1)..Len(peaks) : peaks[k] - peaks[j] < distance}
                  IN  SelectLoop(peaks, order, distance, i - 1,
                                 removed \cup lower \cup upper)

SelectByPeakDistance(x, cand, distance, tie) ==
    LET priority == [j \in 1..Len(cand) |-> x[cand[j] + 1]]
        order == ArgSort(priority, tie)
        removed == SelectLoop(cand, order, distance, Len(cand), {})
        RECURSIVE Kept(_)
        Kept(j) == IF j > Len(cand) THEN <<>>
                   ELSE IF j \in removed THEN Kept(j + 1)
                   ELSE <<cand[j]>> \o Kept(j + 1)
    IN  Kept(1)

(* candidates after the height condition, before the distance condition *)
Candidates(env) == SelectByHeight(env.num, env.den, LocalMaxima(env.num))

find_peaks(env, distance, tie) ==
    SelectByPeakDistance(env.num, Candidates(env), distance, tie)

----------------------------------------------------------------------------
(* Feature Aligner *)

(* spectral_centroids[min(peak, len(spectral_centroids)-1)] in the basic   *)
(* analyser; raises IndexError on an empty array                           *)
BasicFeatureIndex(peak, centroid) == Min(peak, Len(centroid) - 1)

(* frame_idx = min(peak, len(spectral_centroids) - 1) in the live analyser *)
LiveFrameIdx(peak, centroid) == Min(peak, Len(centroid) - 1)

(* zcr[frame_idx] if frame_idx < len(zcr) else 0 *)
LiveZcrValue(frame_idx, zcr) ==
    IF frame_idx < Len(zcr) THEN zcr[frame_idx + 1] ELSE 0

(* a[i] raises IndexError: numpy accepts -len(a) <= i < len(a) *)
IndexRaises(a, i) == i >= Len(a) \/ i < 0 - Len(a)

(* a[i] with numpy's negative indices *)
At(a, i) == IF i >= 0 THEN a[i + 1] ELSE a[Len(a) + i + 1]

----------------------------------------------------------------------------
(* Classifier.  c, r in 1/100 Hz, z in 1/10000.                            *)

BasicClassify(c) ==
    IF c < 30000 THEN "Low Frequency/Bass"
    ELSE IF c < 100000 THEN "Voice/Mid Range"
    ELSE IF c < 400000 THEN "High Voice/Instruments"
    ELSE "High Frequency/Noise"

(* a bug: the Voice/Speech rule tested before the Low Frequency/Bass rule *)
LiveClassifySwapped(c, r, z) ==
    IF c < 300000 /\ z < 1000
    THEN [type |-> "Voice/Speech", confidence |-> 90]
    ELSE IF c < 100000 /\ r < 200000
    THEN [type |-> "Low Frequency/Bass", confidence |-> 80]
    ELSE IF c > 400000 /\ r > 800000
    THEN [type |-> "High Frequency/Noise", confidence |-> 70]
    ELSE IF z > 1500
    THEN [type |-> "Percussive/Transient", confidence |-> 85]
    ELSE [type |-> "Mixed/Complex", confidence |-> 60]

(* confidence in 1/100 *)
LiveClassify(c, r, z) ==
    IF c < 100000 /\ r < 200000
    THEN [type |-> "Low Frequency/Bass", confidence |-> 80]
    ELSE IF c < 300000 /\ z < 1000
    THEN [type |-> "Voice/Speech", confidence |-> 90]
    ELSE IF c > 400000 /\ r > 800000
    THEN [type |-> "High Frequency/Noise", confidence |-> 70]
    ELSE IF z > 1500
    THEN [type |-> "Percussive/Transient", confidence |-> 85]
    ELSE [type |-> "Mixed/Complex", confidence |-> 60]

----------------------------------------------------------------------------
(* Report Assembler *)

NegInf == "-inf"

(* 20 * np.log10(v) if v > 0 else -np.inf, v = num/den; the logarithm is   *)
(* kept symbolic                                                           *)
Decibels(num, den) ==
    IF num > 0 THEN <<"20log10", num, den>> ELSE <<NegInf>>

BasicEvent(req, env, peak) ==
    LET c == At(req.centroid, BasicFeatureIndex(peak, req.centroid))
    IN  [time |-> Round(peak * hop_length, req.sr, 100),
         frequency |-> Round(c, 100, 10),
         amplitude |-> Round(env.num[peak + 1], env.den, 1000),
         type |-> BasicClassify(c),
         decibels |-> Decibels(env.num[peak + 1], env.den)]

LiveEvent(req, env, peak) ==
    LET frame_idx == LiveFrameIdx(peak, req.centroid)
        c == At(req.centroid, frame_idx)
        r == At(req.rolloff, frame_idx)
        z == LiveZcrValue(frame_idx, req.zcr)
        cls == LiveClassify(c, r, z)
    IN  [time |-> Round(peak * hop_length, req.sr, 100),
         frequency |-> Round(c, 100, 10),
         amplitude |-> Round(env.num[peak + 1], env.den, 1000),
         type |-> cls.type,
         confidence |-> cls.confidence,
         decibels |-> Decibels(env.num[peak + 1], env.den),
         spectral_rolloff |-> Round(r, 100, 10),
         zero_crossing_rate |-> Round(z, 10000, 1000)]

(* a bug: an event goes before the earlier events of equal amplitude *)
RECURSIVE InsertDescUnstable(_, _)
InsertDescUnstable(sorted, e) ==
    IF sorted = <<>> THEN <<e>>
    ELSE IF Head(sorted).amplitude > e.amplitude
         THEN <<Head(sorted)>> \o InsertDescUnstable(Tail(sorted), e)
         ELSE <<e>> \o sorted

(* list.sort(key=amplitude, reverse=True): stable, so an event goes after  *)
(* every earlier event whose amplitude is not smaller                      *)
RECURSIVE InsertDesc(_, _)
InsertDesc(sorted, e) ==
    IF sorted = <<>> THEN <<e>>
    ELSE IF Head(sorted).amplitude >= e.amplitude
         THEN <<Head(sorted)>> \o InsertDesc(Tail(sorted), e)
         ELSE <<e>> \o sorted

RECURSIVE SortFrom(_, _, _)
SortFrom(events, i, acc) ==
    IF i > Len(events) THEN acc
    ELSE SortFrom(events, i + 1, InsertDesc(acc, events[i]))

SortByAmplitude(events) == SortFrom(events, 1, <<>>)

(* sound_events[:topN] *)
Truncate(events, topN) == SubSeq(events, 1, Min(Len(events), topN))

----------------------------------------------------------------------------
(* Frequency spectrum.  magnitude = np.abs(np.fft.fft(y)) comes from the   *)
(* transform library: bin 0 is |sum(y)|, which for the non-negative        *)
(* waveforms of the model is also np.max(magnitude); the other bins are an *)
(* input of the request, req.mag, in quarters of bin 0 (repeated           *)
(* periodically).                                                          *)

MagnitudeAt(req, bin0, i) ==
    IF i = 0 THEN bin0
    ELSE (bin0 * req.mag[(i % Len(req.mag)) + 1]) \div 4

(* np.max(magnitude) *)
MaxMagnitude(bin0) == bin0

(* frequency = np.linspace(0, sr, len(magnitude)); round(frequency[i], 1) *)
FrequencyAt(req, i) ==
    LET n == NumSamples(req)
    IN  IF n = 1 THEN 0 ELSE Round(i * req.sr, n - 1, 10)

(* round(magnitude[i] / np.max(magnitude), 3) if np.max(magnitude) > 0 else 0 *)
SpectrumPoint(req, bin0, i) ==
    [frequency |-> FrequencyAt(req, i),
     magnitude |-> IF MaxMagnitude(bin0) > 0
                   THEN Round(MagnitudeAt(req, bin0, i), MaxMagnitude(bin0), 1000)
                   ELSE 0]

(* range(0, stop, step) for step > 0: 0, step, 2*step, ... < stop *)
Range(stop, step) ==
    [k \in 1..((stop + step - 1) \div step) |-> (k - 1) * step]

(* the loop body: one point per index (i < len(magnitude) always holds) *)
SpectrumPoints(req, indices) ==
    LET bin0 == SumSamples(req)
    IN  [k \in 1..Len(indices) |-> SpectrumPoint(req, bin0, indices[k])]

(* freq_step = len(frequency) // 100; range(0, len(frequency)//2, freq_step) *)
(* range() raises ValueError when the step is 0                            *)
BasicFreqStep(n) == n \div KBasic

(* freq_step = len(frequency) // 200; range(0, len//2, max(1, freq_step)) *)
LiveFreqStep(n) == Max(1, n \div KLive)

----------------------------------------------------------------------------
(* The two handlers.  Each returns the JSON result, the handler's local    *)
(* values at its exit, and whether it created / unlinked its temp file.    *)

NoLocals == [energy |-> [num |-> <<>>, den |-> 1], peaks |-> <<>>,
             sound_events |-> <<>>, freq_indices |-> <<>>]

Failure(variant, why, created, loc) ==
    [result |-> [analysisComplete |-> FALSE,
                 error |-> why,
                 message |-> IF variant = "basic" THEN "Audio analysis failed"
                             ELSE "Live audio analysis failed"],
     locals |-> loc, created |-> created, unlinked |-> FALSE]

(* the peaks of the request's waveform: lines 58-69 / 100-114 *)
EnergyOf(req) == Normalize(RawEnergy(req))

(* a bug: the spacing one frame too small *)
PickPeaksCloser(env, tie) == find_peaks(env, MinDistance - 1, tie)

(* find_peaks(energy, height=0.2, distance=5) *)
PickPeaks(env, tie) == find_peaks(env, MinDistance, tie)

BasicEvents(req, env, peaks) ==
    [j \in 1..Len(peaks) |-> BasicEvent(req, env, peaks[j])]

LiveEvents(req, env, peaks) ==
    [j \in 1..Len(peaks) |-> LiveEvent(req, env, peaks[j])]

(* sound_events[:10] of the basic report *)
BasicReported(sorted) == Truncate(sorted, TopNBasic)

(* a bug: the live report cut like the basic one *)
LiveReportedShort(sorted) == Truncate(sorted, TopNBasic)

(* sound_events[:15] of the live report *)
LiveReported(sorted) == Truncate(sorted, TopNLive)

(* "detectedSounds": num_sounds = len(peaks) *)
DetectedSounds(peaks) == Len(peaks)

analyze_audio(req) ==
    LET n == NumSamples(req)
        env == EnergyOf(req)
        peaks == PickPeaks(env, req.tie)
        locE == [NoLocals EXCEPT !.energy = env]
        locP == [locE EXCEPT !.peaks = peaks]
        sorted == SortByAmplitude(BasicEvents(req, env, peaks))
        locS == [locP EXCEPT !.sound_events = sorted]
        indices == Range(n \div 2, BasicFreqStep(n))
    IN  IF ~req.b64ok THEN Failure("basic", "b64decode", FALSE, NoLocals)
        ELSE IF ~req.decodable THEN Failure("basic", "load", TRUE, NoLocals)
        ELSE IF n = 0 THEN Failure("basic", "max of empty array", TRUE, NoLocals)
        ELSE IF \E j \in 1..Len(peaks) :
                   IndexRaises(req.centroid, BasicFeatureIndex(peaks[j], req.centroid))
        THEN Failure("basic", "index out of bounds", TRUE, locP)
        ELSE IF BasicFreqStep(n) = 0
        THEN Failure("basic", "range() arg 3 must not be zero", TRUE, locS)
        ELSE [result |->
                [analysisComplete |-> TRUE,
                 duration |-> Round(n, req.sr, 100),
                 sampleRate |-> req.sr,
                 detectedSounds |-> DetectedSounds(peaks),
                 maxDecibels |-> Decibels(MaxAbs(req), 1),
                 soundEvents |-> BasicReported(sorted),
                 frequencySpectrum |-> SpectrumPoints(req, indices)],
              locals |-> [locS EXCEPT !.freq_indices = indices], created |-> TRUE, unlinked |-> TRUE]

generate_live_analysis(req) ==
    LET n == NumSamples(req)
        env == EnergyOf(req)
        peaks == PickPeaks(env, req.tie)
        locE == [NoLocals EXCEPT !.energy = env]
        locP == [locE EXCEPT !.peaks = peaks]
        sorted == SortByAmplitude(LiveEvents(req, env, peaks))
        locS == [locP EXCEPT !.sound_events = sorted]
        indices == Range(n \div 2, LiveFreqStep(n))
    IN  IF ~req.b64ok THEN Failure("live", "b64decode", FALSE, NoLocals)
        ELSE IF ~req.decodable THEN Failure("live", "load", TRUE, NoLocals)
        ELSE IF n = 0 THEN Failure("live", "max of empty array", TRUE, NoLocals)
        ELSE IF \E j \in 1..Len(peaks) :
                   LET frame_idx == LiveFrameIdx(peaks[j], req.centroid)
                   IN  \/ IndexRaises(req.centroid, frame_idx)
                       \/ IndexRaises(req.rolloff, frame_idx)
        THEN Failure("live", "index out of bounds", TRUE, locP)
        ELSE [result |->
                [analysisComplete |-> TRUE,
                 duration |-> Round(n, req.sr, 100),
                 sampleRate |-> req.sr,
                 detectedSounds |-> DetectedSounds(peaks),
                 maxDecibels |-> Decibels(MaxAbs(req), 1),
                 soundEvents |-> LiveReported(sorted),
                 frequencySpectrum |-> SpectrumPoints(req, indices),
                 energy |-> [energy |-> env, peaks |-> peaks]],
              locals |-> [locS EXCEPT !.freq_indices = indices], created |-> TRUE, unlinked |-> TRUE]

----------------------------------------------------------------------------
(* Requests: the inputs of one call.  The per-frame feature arrays and the *)
(* transform come from librosa / numpy; with librosa's defaults a feature  *)
(* array has 1 + len(y) // hop_length frames.                              *)

FeatureFrames(n) == 1 + n \div hop_length

Identity(k) == [j \in 1..k |-> j]

Reversed(k) == [j \in 1..k |-> k + 1 - j]

(* all orders of k candidates *)
OrdersOf(k) ==
    {f \in [1..k -> 1..k] : \A a, b \in 1..k : a # b => f[a] # f[b]}

TieOrders == [k \in 0..((MaxBlocks + 1) \div 2) |-> OrdersOf(k)]

(* feature values that differ from frame to frame (and are never 0) *)
DefaultCentroid(frames) == [i \in 1..frames |-> 20050 + ((i * 70001) % 600000)]
DefaultRolloff(frames) == [i \in 1..frames |-> 150050 + ((i * 190001) % 900000)]
DefaultZcr(frames) == [i \in 1..frames |-> 505 + ((i * 701) % 2000)]

Request(variant, blocks, lastLen) ==
    LET n == IF Len(blocks) = 0 THEN 0 ELSE hop_length * (Len(blocks) - 1) + lastLen
    IN  [variant |-> variant, b64ok |-> TRUE, decodable |-> TRUE,
         blocks |-> blocks, lastLen |-> lastLen, sr |-> 44100,
         centroid |-> DefaultCentroid(FeatureFrames(n)),
         rolloff |-> DefaultRolloff(FeatureFrames(n)),
         zcr |-> DefaultZcr(FeatureFrames(n)),
         tie |-> <<>>, mag |-> <<2, 4, 0>>]

WithTie(req, tie) == [req EXCEPT !.tie = tie]

NumCandidates(req) == Len(Candidates(EnergyOf(req)))

Variants == {"basic", "live"}

Amps == {0, 1, 2}

(* every waveform of at most MaxBlocks full blocks, every order of ties *)
PeakRequest(req) ==
    \E v \in Variants, L \in 0..MaxBlocks :
        \E blocks \in [1..L -> Amps] :
            LET r == Request(v, blocks, hop_length)
            IN  \E tie \in TieOrders[NumCandidates(r)] : req = WithTie(r, tie)

(* the ranking family: up to MaxBursts bursts, six blocks apart, their    *)
(* shapes repeating with period PatLen; ties ordered stably or reversed   *)
Shapes == <<(<<32, 0>>), (<<32, 1>>), (<<32, 32>>)>>

BurstBlocks(P, pattern) ==
    [b \in 1..(1 + 6 * P) |->
        LET k == (b - 2) \div 6
            off == (b - 2) % 6
        IN  IF b = 1 \/ off > 1 THEN 0
            ELSE Shapes[pattern[(k % Len(pattern)) + 1]][off + 1]]

RankRequest(req) ==
    \E v \in Variants, P \in 0..MaxBursts :
        \E pattern \in [1..PatLen -> 1..Len(Shapes)] :
            LET r == Request(v, BurstBlocks(P, pattern), hop_length)
                k == NumCandidates(r)
            IN  \E tie \in {Identity(k), Reversed(k)} : req = WithTie(r, tie)

(* the classification family: one peak, every frame carrying the same     *)
(* (centroid, rolloff, zero-crossing rate) around the rule thresholds     *)
CentroidValues == {99999, 100000, 299999, 300000, 400000, 400001}
RolloffValues == {199999, 200000, 800000, 800001}
ZcrValues == {999, 1000, 1500, 1501}

OnePeakBlocks == {<<0, 1, 2, 0>>, <<0, 0, 2, 1, 0>>, <<0, 0, 0, 1, 2, 0>>}

ClassifyRequest(req) ==
    \E blocks \in OnePeakBlocks :
        \E c \in CentroidValues, r \in RolloffValues, z \in ZcrValues :
            LET q == Request("live", blocks, hop_length)
                frames == Len(q.centroid)
            IN  req = [q EXCEPT !.tie = <<1>>,
                                !.centroid = [i \in 1..frames |-> c],
                                !.rolloff = [i \in 1..frames |-> r],
                                !.zcr = [i \in 1..frames |-> z]]

(* the alignment family: one peak, feature arrays of every length up to   *)
(* MaxFeatLen, each length chosen on its own                              *)
AlignRequest(req) ==
    \E v \in Variants, blocks \in OnePeakBlocks :
        \E lc, lr, lz \in 0..MaxFeatLen :
            req = [Request(v, blocks, hop_length) EXCEPT
                      !.tie = <<1>>,
                      !.centroid = DefaultCentroid(lc),
                      !.rolloff = DefaultRolloff(lr),
                      !.zcr = DefaultZcr(lz)]

(* the call family: short waveforms (empty, silent, shorter than the      *)
(* spectrum sizes), two sample rates, and undecodable inputs              *)
LastLens == {1, 50, 99, 100, 199, 200, 512}

SampleRates == {8000, 44100}

CallRequest(req) ==
    \E v \in Variants, sr \in SampleRates :
        \/ \E L \in 1..MaxCallBlocks :
              \E blocks \in [1..L -> Amps], lastLen \in LastLens :
                  req = [Request(v, blocks, lastLen) EXCEPT !.sr = sr]
        \/ req = [Request(v, <<>>, 0) EXCEPT !.sr = sr]
        \/ req = [Request(v, <<1>>, hop_length) EXCEPT !.sr = sr, !.b64ok = FALSE]
        \/ req = [Request(v, <<1>>, hop_length) EXCEPT !.sr = sr, !.decodable = FALSE]

----------------------------------------------------------------------------
(* The calls *)

Return(out) ==
    /\ result' = out.result
    /\ locals' = out.locals
    /\ tempFiles' = IF out.created /\ ~out.unlinked
                    THEN tempFiles \cup {calls + 1} ELSE tempFiles
    /\ calls' = calls + 1
    /\ pc' = "returned"
    /\ UNCHANGED request

AnalyzeAudio ==
    /\ pc = "pending"
    /\ request.variant = "basic"
    /\ Return(analyze_audio(request))

GenerateLiveAnalysis ==
    /\ pc = "pending"
    /\ request.variant = "live"
    /\ Return(generate_live_analysis(request))

InitRest ==
    /\ pc = "pending"
    /\ result = [analysisComplete |-> FALSE, error |-> "", message |-> ""]
    /\ locals = NoLocals
    /\ tempFiles = {}
    /\ calls = 0

Next == AnalyzeAudio \/ GenerateLiveAnalysis

InitPeaks == PeakRequest(request) /\ InitRest

SpecPeaks == InitPeaks /\ [][Next]_vars

InitRank == RankRequest(request) /\ InitRest

SpecRank == InitRank /\ [][Next]_vars

InitAlign == AlignRequest(request) /\ InitRest

SpecAlign == InitAlign /\ [][Next]_vars

(* the classification family calls the live analyser only *)
NextLive == GenerateLiveAnalysis

InitClassify == ClassifyRequest(request) /\ InitRest

SpecClassify == InitClassify /\ [][NextLive]_vars

(* the next call of the same process: the files left on disk stay *)
NextRequest ==
    /\ pc = "returned"
    /\ calls < MaxCalls
    /\ CallRequest(request')
    /\ pc' = "pending"
    /\ result' = [analysisComplete |-> FALSE, error |-> "", message |-> ""]
    /\ locals' = NoLocals
    /\ UNCHANGED <<tempFiles, calls>>

NextCall == AnalyzeAudio \/ GenerateLiveAnalysis \/ NextRequest

InitCall == CallRequest(request) /\ InitRest

SpecCall == InitCall /\ [][NextCall]_vars

----------------------------------------------------------------------------
(* What the claims speak about *)

Returned == pc = "returned"

Succeeded == Returned /\ result.analysisComplete

Failed == Returned /\ ~result.analysisComplete

(* the normalized envelope value of frame p is EnergyNum(p) / EnergyDen *)
EnergyNum(p) == locals.energy.num[p + 1]
EnergyDen == locals.energy.den

PeakSet == {locals.peaks[i] : i \in 1..Len(locals.peaks)}

(* the candidates of the last call: local maxima that pass the height *)
Cands == Candidates(locals.energy)

Dist(p, q) == IF p > q THEN p - q ELSE q - p

(* candidates a, b (indices into Cands) with no third candidate closer *)
(* than MinDistance to either                                          *)
AlonePair(a, b) ==
    \A c \in 1..Len(Cands) :
        c \notin {a, b} =>
            /\ Dist(Cands[c], Cands[a]) >= MinDistance
            /\ Dist(Cands[c], Cands[b]) >= MinDistance

----------------------------------------------------------------------------
(* C1: the peak list is ascending, any two peaks are at least MinDistance  *)
(* frames apart, and every peak's envelope value is at least 0.2.          *)
C1_PeaksSpacedAndHigh ==
    Returned =>
        /\ \A i \in 1..(Len(locals.peaks) - 1) :
               locals.peaks[i + 1] - locals.peaks[i] >= MinDistance
        /\ \A i \in 1..Len(locals.peaks) :
               HeightDen * EnergyNum(locals.peaks[i]) >= EnergyDen

(* two peaks were kept while the distance condition removed a candidate    *)
C1_Witness ==
    /\ Returned
    /\ Len(locals.peaks) >= 2
    /\ Len(Cands) > Len(locals.peaks)

RuleMatches(k, c, r, z) ==
    CASE k = 1 -> c < 100000 /\ r < 200000
      [] k = 2 -> c < 300000 /\ z < 1000
      [] k = 3 -> c > 400000 /\ r > 800000
      [] k = 4 -> z > 1500
      [] OTHER -> TRUE

RuleLabels ==
    << <<"Low Frequency/Bass", 80>>, <<"Voice/Speech", 90>>,
       <<"High Frequency/Noise", 70>>, <<"Percussive/Transient", 85>>,
       <<"Mixed/Complex", 60>> >>

FirstMatch(c, r, z) ==
    RuleLabels[CHOOSE k \in 1..5 :
                  /\ RuleMatches(k, c, r, z)
                  /\ \A m \in 1..(k - 1) : ~RuleMatches(m, c, r, z)]

C3_FirstMatchingRule ==
    (Succeeded /\ request.variant = "live") =>
        \A i \in 1..Len(result.soundEvents) :
            <<result.soundEvents[i].type, result.soundEvents[i].confidence>>
                = FirstMatch(request.centroid[1], request.rolloff[1], request.zcr[1])

(* an event whose features match the first and the second rule *)
C3_Witness ==
    /\ Succeeded
    /\ request.variant = "live"
    /\ Len(result.soundEvents) = 1
    /\ RuleMatches(1, request.centroid[1], request.rolloff[1], request.zcr[1])
    /\ RuleMatches(2, request.centroid[1], request.rolloff[1], request.zcr[1])
    /\ result.soundEvents[1].type = "Low Frequency/Bass"

(* C7: soundEvents is ordered by amplitude, non-increasing, and events of  *)
(* equal amplitude keep their peak order (their times ascend).             *)
C7_SortedStable ==
    Succeeded =>
        \A i, j \in 1..Len(result.soundEvents) :
            i < j =>
                /\ result.soundEvents[i].amplitude >= result.soundEvents[j].amplitude
                /\ result.soundEvents[i].amplitude = result.soundEvents[j].amplitude
                       => result.soundEvents[i].time < result.soundEvents[j].time

(* a report that holds equal amplitudes, a drop in amplitude, and an event *)
(* ranked above an earlier (in time) one                                   *)
C7_Witness ==
    /\ Succeeded
    /\ \E i, j, k \in 1..Len(result.soundEvents) :
        /\ i < j /\ j < k
        /\ result.soundEvents[i].amplitude = result.soundEvents[j].amplitude
        /\ result.soundEvents[j].amplitude > result.soundEvents[k].amplitude
        /\ result.soundEvents[j].time > result.soundEvents[k].time

TopN == IF request.variant = "basic" THEN TopNBasic ELSE TopNLive

(* C8: soundEvents has min(P, topN) entries, the first ones of the sorted  *)
(* event list; no omitted event is louder than a reported one;             *)
(* detectedSounds is the number of peaks P.                                *)
C8_TopNOfSorted ==
    Succeeded =>
        LET P == Len(locals.peaks)
            shown == result.soundEvents
            all == locals.sound_events
        IN  /\ Len(all) = P
            /\ Len(shown) = Min(P, TopN)
            /\ Len(shown) <= TopN
            /\ \A i \in 1..Len(shown) : shown[i] = all[i]
            /\ \A i \in 1..Len(shown) : \A j \in (Len(shown) + 1)..P :
                   all[j].amplitude <= shown[i].amplitude
            /\ result.detectedSounds = P
            /\ result.detectedSounds >= Len(shown)

(* the live report cut at TopNLive, an omitted event as loud as the last   *)
(* reported one                                                            *)
C8_Witness ==
    /\ Succeeded
    /\ request.variant = "live"
    /\ Len(locals.peaks) > TopNLive
    /\ Len(result.soundEvents) = TopNLive
    /\ locals.sound_events[TopNLive + 1].amplitude
           = result.soundEvents[TopNLive].amplitude

----------------------------------------------------------------------------
(* Claims about whole calls *)

Decoded == request.b64ok /\ request.decodable

Silent == \A b \in 1..Len(request.blocks) : request.blocks[b] = 0

(* C4: an empty waveform gives a success result with duration 0 and       *)
(* detectedSounds 0, never the failure result.                            *)
C4_EmptyWaveformSucceeds ==
    (Returned /\ Decoded /\ NumSamples(request) = 0) =>
        /\ result.analysisComplete
        /\ result.duration = 0
        /\ result.detectedSounds = 0

(* C5: when a call has returned, the temporary file it wrote is gone.     *)
C5_TempFileReleased ==
    Returned => calls \notin tempFiles

(* the value of feature array F the clamp of the claim selects for peak p *)
Clamped(F, p) == F[Min(p, Len(F) - 1) + 1]

C9_SilentWaveform ==
    (Returned /\ Decoded /\ NumSamples(request) > 0 /\ Silent) =>
        /\ result.analysisComplete
        /\ \A f \in 1..Len(locals.energy.num) : locals.energy.num[f] = 0
        /\ Len(locals.energy.num) > 0
        /\ locals.peaks = <<>>
        /\ result.soundEvents = <<>>
        /\ result.detectedSounds = 0
        /\ result.maxDecibels = <<NegInf>>
        /\ \A k \in 1..Len(result.frequencySpectrum) :
               result.frequencySpectrum[k].magnitude = 0

SpectrumK == IF request.variant = "basic" THEN KBasic ELSE KLive

(* C10: for n >= 1 samples the spectrum is built without raising, from    *)
(* the indices 0, s, 2s, ... < n/2 (s = n div K when that is not 0): at    *)
(* most K points of the positive half, each magnitude in [0, 1].           *)
C10_SpectrumBuilt ==
    (Returned /\ Decoded /\ NumSamples(request) >= 1) =>
        LET n == NumSamples(request)
            s == n \div SpectrumK
            idx == locals.freq_indices
        IN  /\ result.analysisComplete
            /\ Len(result.frequencySpectrum) = Len(idx)
            /\ Len(idx) <= SpectrumK
            /\ \A k \in 1..Len(idx) :
                   /\ 2 * idx[k] < n
                   /\ s > 0 => idx[k] = (k - 1) * s
                   /\ result.frequencySpectrum[k].magnitude \in 0..1000
            /\ s > 0 => \A i \in 0..(n - 1) :
                   (i % s = 0 /\ 2 * i < n - 1) => \E k \in 1..Len(idx) : idx[k] = i

====
